---- MODULE Spec2Model ----
(***************************************************************************)
(* GestionHospital back end: the staff and specialty data-access layer.    *)
(*                                                                         *)
(* The store is the SQLite file named by DATABASE_URL.  Request handlers   *)
(* run on FastAPI's thread pool, one request-scoped session each, so a     *)
(* handler is modelled as a sequence of steps, one per statement that      *)
(* talks to the store, and the steps of different requests interleave.     *)
(***************************************************************************)
EXTENDS Integers, FiniteSets, Sequences, TLC

VARIABLES
    staff,        \* committed rows of table "staff"
    specialties,  \* committed rows of table "specialties"
    departments,  \* committed rows of table "departments"
    writer,       \* worker whose connection holds SQLite's write lock, or NoWriter
    clock,        \* the store's clock, read by func.now()
    session,      \* session[p]: TRUE while worker p's request-scoped session is open
    txn,          \* txn[p]: the tables as written by p's open write transaction ({} = none)
    req,          \* req[p]: the request worker p is serving
    pc,           \* pc[p]: where p's handler stands
    obj,          \* obj[p]: the ORM object the handler holds ({} = None)
    result,       \* result[p]: the response of p's request ({} = none yet)
    fresh,        \* history: fresh[p] iff the key of p's create was not stored when the request arrived
    requests,     \* number of requests accepted so far
    returned,     \* history: the rows that specialty creates have answered with
    posts         \* request-vacation: the module-level list `posts`

vars == <<staff, specialties, departments, writer, clock, session, txn, req, pc,
          obj, result, fresh, requests, returned, posts>>

-----------------------------------------------------------------------------
(* Bounds *)

\* Requests accepted in one behaviour.
MaxRequests == 3

\* The workers of the thread pool that serve requests at the same time.
Procs == {1, 2}

-----------------------------------------------------------------------------
(* Values *)

\* SQL NULL / Python None in a text column.
NULL == "NULL"

\* Python None in an Optional[int] field; every primary key is positive.
NoneId == 0

NoWriter == 0

HTTP_200_OK == 200
HTTP_201_CREATED == 201
HTTP_400_BAD_REQUEST == 400
HTTP_404_NOT_FOUND == 404
HTTP_409_CONFLICT == 409
\* What the framework answers when a handler lets an exception escape.
HTTP_500_INTERNAL_SERVER_ERROR == 500

Emails == {"ana.lopez@test.com", "carlos.perez@test.com"}

\* Validated StaffCreate payloads.
StaffCreateInputs ==
    [first_name : {"Ana"}, last_name : {"Lopez"}, email : Emails,
     phone_number : {"12345678"}, start_date : {"2024-01-01"},
     status : {"Active"}, role_level : {"Senior"},
     department_id : {1, 2}, specialty_id : {1}]

\* Validated StaffPositionUpdate payloads; specialty_id is optional.
StaffPositionInputs ==
    [role_level : {"Senior", "Chief"}, department_id : {1, 2},
     specialty_id : {NoneId, 1}]

StaffIdInputs == {1, 2}

\* Validated SpecialtyCreate payloads; description defaults to None.
SpecialtyCreateInputs ==
    [name : {"Cardiology", "cardiology"}, description : {NULL, "Heart stuff"}]

\* The departments table as the staff tests seed it; no endpoint writes it.
SeededDepartments == {[id |-> 1, name |-> "Cardiology"]}

NoRequest == [op |-> "none"]

\* request-vacation: the list `posts` as the module creates it.
InitialPosts ==
    <<[id |-> 1, name |-> "JavaScript", description |-> "JS is awesome"],
      [id |-> 2, name |-> "Python", description |-> "build fast APIs with Python"]>>

\* Validated PostCreate payloads.
PostCreateInputs ==
    [author : {"ana"}, type : {"vacation", "sick"}, description : {"rest"},
     startDate : {"2024-01-01"}, endDay : {"2024-01-02"}]

PostIdInputs == {1, 2, 3, 4}

-----------------------------------------------------------------------------
(* The store *)

\* SQL LOWER() on the names of the model.
Lower(s) ==
    CASE s = "Cardiology" -> "cardiology"
      [] OTHER -> s

Ids(table) == {r.id : r \in table}

\* The rowid SQLite gives the next INSERT: one more than the largest in use.
NextId(table) ==
    IF table = {} THEN 1
    ELSE (CHOOSE m \in Ids(table) : \A i \in Ids(table) : i <= m) + 1

\* Variant: the column is not declared unique.
StaffEmailUniqueMutant(table, row) == TRUE

\* Variant: the constraint sits on the key instead of the email.
StaffEmailUniqueWrongColumn(table, row) == \A r \in table : r.id # row.id

\* unique=True on Staff.email: may `row` be inserted into `table`?
StaffEmailUnique(table, row) == \A r \in table : r.email # row.email

\* Variant: the column is not declared unique.
SpecialtyNameUniqueMutant(table, row) == TRUE

\* Variant: the constraint sits on the key instead of the name.
SpecialtyNameUniqueWrongColumn(table, row) == \A r \in table : r.id # row.id

\* unique=True on Specialty.name (an exact, case-sensitive match).
SpecialtyNameUnique(table, row) == \A r \in table : r.name # row.name

\* The engine is created without PRAGMA foreign_keys=ON, so SQLite does not
\* enforce the ForeignKey columns of Staff.
ForeignKeysEnforced == FALSE

StaffForeignKeysOk(row) ==
    ForeignKeysEnforced =>
        /\ row.department_id \in Ids(departments)
        /\ row.specialty_id = NoneId \/ row.specialty_id \in Ids(specialties)

\* Variant: the pre-check never finds a row.
StaffByEmailMutant(table, email) == {}

\* db.query(Staff).filter(Staff.email == email).first(), as a set of at most one row.
StaffByEmail(table, email) == {r \in table : r.email = email}

\* db.query(X).filter(X.id == id).first()
ById(table, id) == {r \in table : r.id = id}

\* Variant: the pre-check never finds a row.
get_specialty_by_nameMutant(table, name) == {}

\* Variant: the pre-check compares the names as they are.
get_specialty_by_nameExact(table, name) == {r \in table : r.name = name}

\* get_specialty_by_name: the rows whose lowered name equals the lowered argument.
get_specialty_by_name(table, name) == {r \in table : Lower(r.name) = Lower(name)}

-----------------------------------------------------------------------------
(* Responses *)

Response(status, exc, detail, body) ==
    [status |-> status, exc |-> exc, detail |-> detail, body |-> body]

\* The exception and the response are kept together: exc is what the handler
\* raised ("" when it returned), status what the client receives.  The body
\* is the row the handler returned; its serialisation by response_model is
\* the framework's.
Returned(status, row) == Response(status, "", "", {row})

HTTPException(status, detail) == Response(status, "HTTPException", detail, {})

\* Variant: the data layer reports the failed INSERT as the conflict.
IntegrityErrorMutant == Response(HTTP_409_CONFLICT, "HTTPException", "already exists", {})

\* The INSERT violates a constraint: db.commit() raises, nothing catches it.
IntegrityError == Response(HTTP_500_INTERNAL_SERVER_ERROR, "IntegrityError", "", {})

-----------------------------------------------------------------------------
(* Session lifecycle and the steps shared by the handlers *)

Init ==
    /\ staff = {}
    /\ specialties = {}
    /\ departments = SeededDepartments
    /\ writer = NoWriter
    /\ clock = 1
    /\ session = [p \in Procs |-> FALSE]
    /\ txn = [p \in Procs |-> {}]
    /\ req = [p \in Procs |-> NoRequest]
    /\ pc = [p \in Procs |-> "idle"]
    /\ obj = [p \in Procs |-> {}]
    /\ result = [p \in Procs |-> {}]
    /\ fresh = [p \in Procs |-> FALSE]
    /\ requests = 0
    /\ returned = {}
    /\ posts = InitialPosts

\* A handler ends (return or raise) with response r; get_db's finally is next.
Finish(p, r) ==
    /\ result' = [result EXCEPT ![p] = {r}]
    /\ pc' = [pc EXCEPT ![p] = "finally"]

Goto(p, label) == pc' = [pc EXCEPT ![p] = label]

\* get_db up to its yield: a worker accepts request r on a new session.
Accept(p, r, first, isFresh) ==
    /\ pc[p] = "idle"
    /\ requests < MaxRequests
    /\ requests' = requests + 1
    /\ session' = [session EXCEPT ![p] = TRUE]
    /\ req' = [req EXCEPT ![p] = r]
    /\ pc' = [pc EXCEPT ![p] = first]
    /\ obj' = [obj EXCEPT ![p] = {}]
    /\ result' = [result EXCEPT ![p] = {}]
    /\ fresh' = [fresh EXCEPT ![p] = isFresh]
    /\ UNCHANGED <<staff, specialties, departments, writer, clock, txn, returned, posts>>

\* Variant: get_db without its finally; the session is left open.
get_db_closeMutant(p) ==
    /\ pc[p] = "finally"
    /\ pc' = [pc EXCEPT ![p] = "idle"]
    /\ req' = [req EXCEPT ![p] = NoRequest]
    /\ obj' = [obj EXCEPT ![p] = {}]
    /\ result' = [result EXCEPT ![p] = {}]
    /\ fresh' = [fresh EXCEPT ![p] = FALSE]
    /\ UNCHANGED <<staff, specialties, departments, writer, clock, session, txn,
                   requests, returned, posts>>

\* get_db after its yield: db.close() rolls back what was not committed and
\* the request is over; the worker goes back to the pool.
get_db_close(p) ==
    /\ pc[p] = "finally"
    /\ session' = [session EXCEPT ![p] = FALSE]
    /\ txn' = [txn EXCEPT ![p] = {}]
    /\ writer' = IF writer = p THEN NoWriter ELSE writer
    /\ pc' = [pc EXCEPT ![p] = "idle"]
    /\ req' = [req EXCEPT ![p] = NoRequest]
    /\ obj' = [obj EXCEPT ![p] = {}]
    /\ result' = [result EXCEPT ![p] = {}]
    /\ fresh' = [fresh EXCEPT ![p] = FALSE]
    /\ UNCHANGED <<staff, specialties, departments, clock, requests, returned, posts>>

\* The COMMIT of db.commit(): p's transaction becomes the store, the lock is freed.
\* A commit with nothing flushed writes nothing.
Commit(p, next) ==
    /\ IF txn[p] = {}
       THEN UNCHANGED <<staff, specialties, writer>>
       ELSE /\ writer = p
            /\ \E t \in txn[p] : staff' = t.staff /\ specialties' = t.specialties
            /\ writer' = NoWriter
    /\ txn' = [txn EXCEPT ![p] = {}]
    /\ Goto(p, next)
    /\ UNCHANGED <<departments, clock, session, req, obj, result, fresh, requests, returned, posts>>

-----------------------------------------------------------------------------
(* Cr_StaffContactInformation: POST /api/staff/ and GET /api/staff/{staff_id} *)

\* Variant: the two name columns are swapped.
StaffRowMutant(data, id, now) ==
    [id |-> id, first_name |-> data.last_name, last_name |-> data.first_name,
     email |-> data.email, phone_number |-> data.phone_number,
     start_date |-> data.start_date, status |-> data.status,
     role_level |-> data.role_level, department_id |-> data.department_id,
     specialty_id |-> data.specialty_id, created_at |-> now]

\* Staff(**staff_data.model_dump()) with the columns the store assigns.
StaffRow(data, id, now) ==
    [id |-> id, first_name |-> data.first_name, last_name |-> data.last_name,
     email |-> data.email, phone_number |-> data.phone_number,
     start_date |-> data.start_date, status |-> data.status,
     role_level |-> data.role_level, department_id |-> data.department_id,
     specialty_id |-> data.specialty_id, created_at |-> now]

create_staff_endpoint(p) ==
    \E d \in StaffCreateInputs :
        Accept(p, [op |-> "create_staff", data |-> d], "cs_query",
               \A r \in staff : r.email # d.email)

\* create_staff, the pre-check: a stored row with this email ends the call.
create_staff_query(p) ==
    /\ pc[p] = "cs_query"
    /\ \/ /\ StaffByEmail(staff, req[p].data.email) # {}
          /\ Finish(p, HTTPException(HTTP_400_BAD_REQUEST, "Email already registered"))
       \/ /\ StaffByEmail(staff, req[p].data.email) = {}
          /\ Goto(p, "cs_flush")
          /\ UNCHANGED result
    /\ UNCHANGED <<staff, specialties, departments, writer, clock, session, txn,
                   req, obj, fresh, requests, returned, posts>>

\* create_staff, db.add and the INSERT that db.commit() flushes.  The INSERT
\* waits for SQLite's write lock; the store checks its constraints on it.
create_staff_flush(p) ==
    /\ pc[p] = "cs_flush"
    /\ writer = NoWriter
    /\ LET row == StaffRow(req[p].data, NextId(staff), clock) IN
       \/ /\ StaffEmailUnique(staff, row) /\ StaffForeignKeysOk(row)
          /\ writer' = p
          /\ txn' = [txn EXCEPT ![p] = {[staff |-> staff \cup {row},
                                         specialties |-> specialties]}]
          /\ obj' = [obj EXCEPT ![p] = {row}]
          /\ clock' = clock + 1
          /\ Goto(p, "cs_commit")
          /\ UNCHANGED result
       \/ /\ ~(StaffEmailUnique(staff, row) /\ StaffForeignKeysOk(row))
          /\ Finish(p, IntegrityError)
          /\ UNCHANGED <<writer, txn, obj, clock>>
    /\ UNCHANGED <<staff, specialties, departments, session, req, fresh, requests, returned, posts>>

create_staff_commit(p) ==
    /\ pc[p] = "cs_commit"
    /\ Commit(p, "cs_refresh")

\* create_staff, db.refresh(new_staff) and the return; the router answers 201.
create_staff_refresh(p) ==
    /\ pc[p] = "cs_refresh"
    /\ \E o \in obj[p] : \E row \in ById(staff, o.id) :
          /\ obj' = [obj EXCEPT ![p] = {row}]
          /\ Finish(p, Returned(HTTP_201_CREATED, row))
    /\ UNCHANGED <<staff, specialties, departments, writer, clock, session, txn,
                   req, fresh, requests, returned, posts>>

get_staff_endpoint(p) ==
    \E id \in StaffIdInputs :
        Accept(p, [op |-> "get_staff", staff_id |-> id], "gs_query", FALSE)

\* Variant: the query has no filter on the id.
get_staffMutant(p) ==
    /\ pc[p] = "gs_query"
    /\ \/ /\ staff = {}
          /\ Finish(p, HTTPException(HTTP_404_NOT_FOUND, "Staff not found"))
          /\ UNCHANGED obj
       \/ /\ staff # {}
          /\ LET row == CHOOSE r \in staff : \A o \in staff : r.id <= o.id IN
             /\ obj' = [obj EXCEPT ![p] = {row}]
             /\ Finish(p, Returned(HTTP_200_OK, row))
    /\ UNCHANGED <<staff, specialties, departments, writer, clock, session, txn,
                   req, fresh, requests, returned, posts>>

\* get_staff: the row with the id, or HTTPException 404.
get_staff(p) ==
    /\ pc[p] = "gs_query"
    /\ \/ /\ ById(staff, req[p].staff_id) = {}
          /\ Finish(p, HTTPException(HTTP_404_NOT_FOUND, "Staff not found"))
          /\ UNCHANGED obj
       \/ \E row \in ById(staff, req[p].staff_id) :
             /\ obj' = [obj EXCEPT ![p] = {row}]
             /\ Finish(p, Returned(HTTP_200_OK, row))
    /\ UNCHANGED <<staff, specialties, departments, writer, clock, session, txn,
                   req, fresh, requests, returned, posts>>

-----------------------------------------------------------------------------
(* app: PATCH /staff/{staff_id}/position *)

\* A ValueError of crud.assign_staff_position, answered 400 by assign_position.
ValueError(detail) == Response(HTTP_400_BAD_REQUEST, "ValueError", detail, {})

\* Variant: the department check always passes.
DepartmentExistsMutant(id) == TRUE

\* db.query(Department).filter(Department.id == id).first() is not None
DepartmentExists(id) == ById(departments, id) # {}

\* Variant: the specialty check always passes.
SpecialtyExistsMutant(id) == TRUE

\* db.query(Specialty).filter(Specialty.id == id).first() is not None
SpecialtyExists(id) == ById(specialties, id) # {}

\* Variant: the query has no filter on the id.
db_staffMutant(table, id) == IF table = {} THEN {} ELSE {CHOOSE r \in table : TRUE}

\* db_staff = db.query(Staff).filter(Staff.id == staff_id).first()
db_staff(table, id) == ById(table, id)

\* The three assignments to db_staff: the object as the handler leaves it.
Assigned(o, data) ==
    [o EXCEPT !.role_level = data.role_level,
              !.department_id = data.department_id,
              !.specialty_id = data.specialty_id]

\* Variant: created_at is declared with onupdate=func.now().
UpdateMutant(row, loaded, new) ==
    [row EXCEPT
       !.role_level = IF new.role_level # loaded.role_level
                      THEN new.role_level ELSE @,
       !.department_id = IF new.department_id # loaded.department_id
                         THEN new.department_id ELSE @,
       !.specialty_id = IF new.specialty_id # loaded.specialty_id
                        THEN new.specialty_id ELSE @,
       !.created_at = clock]

\* The UPDATE the unit of work emits for db_staff: it sets the columns whose
\* value differs from the one the session loaded, on the row with that key.
Update(row, loaded, new) ==
    [row EXCEPT
       !.role_level = IF new.role_level # loaded.role_level
                      THEN new.role_level ELSE @,
       !.department_id = IF new.department_id # loaded.department_id
                         THEN new.department_id ELSE @,
       !.specialty_id = IF new.specialty_id # loaded.specialty_id
                        THEN new.specialty_id ELSE @]

assign_position(p) ==
    \E id \in StaffIdInputs, d \in StaffPositionInputs :
        Accept(p, [op |-> "assign_staff_position", staff_id |-> id, data |-> d],
               "as_staff", FALSE)

\* Variant: the department is validated before the staff row is looked up.
assign_staff_position_staffMutant(p) ==
    /\ pc[p] = "as_staff"
    /\ \/ /\ ~DepartmentExists(req[p].data.department_id)
          /\ Finish(p, ValueError("department"))
          /\ UNCHANGED obj
       \/ /\ DepartmentExists(req[p].data.department_id)
          /\ db_staff(staff, req[p].staff_id) = {}
          /\ Finish(p, HTTPException(HTTP_404_NOT_FOUND, "staff"))
          /\ UNCHANGED obj
       \/ /\ DepartmentExists(req[p].data.department_id)
          /\ obj' = [obj EXCEPT ![p] = db_staff(staff, req[p].staff_id)]
          /\ obj'[p] # {}
          /\ Goto(p, "as_dept")
          /\ UNCHANGED result
    /\ UNCHANGED <<staff, specialties, departments, writer, clock, session, txn,
                   req, fresh, requests, returned, posts>>

\* Validation A: the staff row; None makes the router answer 404.
assign_staff_position_staff(p) ==
    /\ pc[p] = "as_staff"
    /\ \/ /\ db_staff(staff, req[p].staff_id) = {}
          /\ Finish(p, HTTPException(HTTP_404_NOT_FOUND, "staff"))
          /\ UNCHANGED obj
       \/ /\ obj' = [obj EXCEPT ![p] = db_staff(staff, req[p].staff_id)]
          /\ obj'[p] # {}
          /\ Goto(p, "as_dept")
          /\ UNCHANGED result
    /\ UNCHANGED <<staff, specialties, departments, writer, clock, session, txn,
                   req, fresh, requests, returned, posts>>

\* Validation B: the department.  The specialty is looked up only when given.
assign_staff_position_department(p) ==
    /\ pc[p] = "as_dept"
    /\ \/ /\ ~DepartmentExists(req[p].data.department_id)
          /\ Finish(p, ValueError("department"))
       \/ /\ DepartmentExists(req[p].data.department_id)
          /\ Goto(p, IF req[p].data.specialty_id # NoneId THEN "as_spec" ELSE "as_flush")
          /\ UNCHANGED result
    /\ UNCHANGED <<staff, specialties, departments, writer, clock, session, txn,
                   req, obj, fresh, requests, returned, posts>>

\* Validation C: the specialty.
assign_staff_position_specialty(p) ==
    /\ pc[p] = "as_spec"
    /\ \/ /\ ~SpecialtyExists(req[p].data.specialty_id)
          /\ Finish(p, ValueError("specialty"))
       \/ /\ SpecialtyExists(req[p].data.specialty_id)
          /\ Goto(p, "as_flush")
          /\ UNCHANGED result
    /\ UNCHANGED <<staff, specialties, departments, writer, clock, session, txn,
                   req, obj, fresh, requests, returned, posts>>

\* The assignments and the UPDATE that db.commit() flushes; an object left
\* as it was loaded is not dirty and no statement is sent.
assign_staff_position_flush(p) ==
    /\ pc[p] = "as_flush"
    /\ \E o \in obj[p] :
        LET new == Assigned(o, req[p].data) IN
        /\ obj' = [obj EXCEPT ![p] = {new}]
        /\ \/ /\ new = o
              /\ UNCHANGED <<writer, txn>>
           \/ /\ new # o
              /\ writer = NoWriter
              /\ StaffForeignKeysOk(new)
              /\ writer' = p
              /\ txn' = [txn EXCEPT ![p] =
                          {[staff |-> {IF r.id = o.id THEN Update(r, o, new) ELSE r
                                        : r \in staff},
                            specialties |-> specialties]}]
    /\ Goto(p, "as_commit")
    /\ UNCHANGED <<staff, specialties, departments, clock, session, req, result,
                   fresh, requests, returned, posts>>

assign_staff_position_commit(p) ==
    /\ pc[p] = "as_commit"
    /\ Commit(p, "as_refresh")

\* db.refresh(db_staff) and the return.
assign_staff_position_refresh(p) ==
    /\ pc[p] = "as_refresh"
    /\ \E o \in obj[p] : \E row \in ById(staff, o.id) :
          /\ obj' = [obj EXCEPT ![p] = {row}]
          /\ Finish(p, Returned(HTTP_200_OK, row))
    /\ UNCHANGED <<staff, specialties, departments, writer, clock, session, txn,
                   req, fresh, requests, returned, posts>>

-----------------------------------------------------------------------------
(* app: POST /api/v1/specialties/ *)

\* Variant: the description is not passed to the constructor.
SpecialtyRowMutant(data, id, now) ==
    [id |-> id, name |-> data.name, description |-> NULL, created_at |-> now]

\* Specialty(name=..., description=...) with the columns the store assigns.
SpecialtyRow(data, id, now) ==
    [id |-> id, name |-> data.name, description |-> data.description,
     created_at |-> now]

create_specialty_endpoint(p) ==
    \E d \in SpecialtyCreateInputs :
        Accept(p, [op |-> "create_specialty", data |-> d], "sp_query",
               \A r \in specialties : r.name # d.name)

\* Step 1 of the router: the duplicate-name pre-check.
create_specialty_query(p) ==
    /\ pc[p] = "sp_query"
    /\ \/ /\ get_specialty_by_name(specialties, req[p].data.name) # {}
          /\ Finish(p, HTTPException(HTTP_409_CONFLICT, "already exists"))
       \/ /\ get_specialty_by_name(specialties, req[p].data.name) = {}
          /\ Goto(p, "sp_flush")
          /\ UNCHANGED result
    /\ UNCHANGED <<staff, specialties, departments, writer, clock, session, txn,
                   req, obj, fresh, requests, returned, posts>>

\* Variant: the session factory is made with autocommit; the INSERT is
\* in the store as soon as it is sent.
create_specialty_flushMutant(p) ==
    /\ pc[p] = "sp_flush"
    /\ writer = NoWriter
    /\ LET row == SpecialtyRow(req[p].data, NextId(specialties), clock) IN
       \/ /\ SpecialtyNameUnique(specialties, row)
          /\ specialties' = specialties \cup {row}
          /\ obj' = [obj EXCEPT ![p] = {row}]
          /\ clock' = clock + 1
          /\ Goto(p, "sp_commit")
          /\ UNCHANGED result
       \/ /\ ~SpecialtyNameUnique(specialties, row)
          /\ Finish(p, IntegrityError)
          /\ UNCHANGED <<specialties, obj, clock>>
    /\ UNCHANGED <<staff, departments, writer, txn, session, req, fresh, requests,
                   returned, posts>>

\* crud.create_specialty, db.add and the INSERT that db.commit() flushes.
create_specialty_flush(p) ==
    /\ pc[p] = "sp_flush"
    /\ writer = NoWriter
    /\ LET row == SpecialtyRow(req[p].data, NextId(specialties), clock) IN
       \/ /\ SpecialtyNameUnique(specialties, row)
          /\ writer' = p
          /\ txn' = [txn EXCEPT ![p] = {[staff |-> staff,
                                         specialties |-> specialties \cup {row}]}]
          /\ obj' = [obj EXCEPT ![p] = {row}]
          /\ clock' = clock + 1
          /\ Goto(p, "sp_commit")
          /\ UNCHANGED result
       \/ /\ ~SpecialtyNameUnique(specialties, row)
          /\ Finish(p, IntegrityError)
          /\ UNCHANGED <<writer, txn, obj, clock>>
    /\ UNCHANGED <<staff, specialties, departments, session, req, fresh, requests, returned, posts>>

create_specialty_commit(p) ==
    /\ pc[p] = "sp_commit"
    /\ Commit(p, "sp_refresh")

create_specialty_refresh(p) ==
    /\ pc[p] = "sp_refresh"
    /\ \E o \in obj[p] : \E row \in ById(specialties, o.id) :
          /\ obj' = [obj EXCEPT ![p] = {row}]
          /\ Finish(p, Returned(HTTP_201_CREATED, row))
          /\ returned' = returned \cup {row}
    /\ UNCHANGED <<staff, specialties, departments, writer, clock, session, txn,
                   req, fresh, requests, posts>>

-----------------------------------------------------------------------------
(* app: GET /api/v1/specialties/ and GET /api/v1/specialties/{specialty_id} *)

\* The functions crud.py defines: what `crud.<name>` resolves to in a router.
crud == {"get_all_specialties", "get_specialty_by_name", "get_specialty",
         "create_specialty", "assign_staff_position"}

\* Looking up a name a module does not define raises AttributeError; no
\* handler catches it and the framework answers 500.
AttributeError ==
    Response(HTTP_500_INTERNAL_SERVER_ERROR, "AttributeError", "", {})

\* Query parameters of the list endpoint; skip defaults to 0, limit to 100.
SkipInputs == {0, 1}
LimitInputs == {1, 100}

SpecialtyIdInputs == {1, 2, 3}

get_specialties_endpoint(p) ==
    \E skip \in SkipInputs, limit \in LimitInputs :
        Accept(p, [op |-> "get_specialties", skip |-> skip, limit |-> limit],
               "ls_call", FALSE)

\* The router's only statement, crud.get_specialties(db=db, skip=skip,
\* limit=limit): crud.py has no get_specialties (its list function is
\* get_all_specialties(db)), so evaluating the attribute raises before any
\* query is sent.
get_specialties_call(p) ==
    /\ pc[p] = "ls_call"
    /\ "get_specialties" \notin crud
    /\ Finish(p, AttributeError)
    /\ UNCHANGED <<staff, specialties, departments, writer, clock, session, txn,
                   req, obj, fresh, requests, returned, posts>>

\* Variant: the lookup never finds a row.
get_specialtyMutant(table, specialty_id) == {}

\* crud.get_specialty: db.query(Specialty).filter(Specialty.id == specialty_id).first()
get_specialty(table, specialty_id) == ById(table, specialty_id)

get_specialty_endpoint(p) ==
    \E id \in SpecialtyIdInputs :
        Accept(p, [op |-> "get_specialty", specialty_id |-> id], "gsp_query", FALSE)

\* The router: None is answered 404, a row is returned as it is.
get_specialty_query(p) ==
    /\ pc[p] = "gsp_query"
    /\ \/ /\ get_specialty(specialties, req[p].specialty_id) = {}
          /\ Finish(p, HTTPException(HTTP_404_NOT_FOUND, "not found"))
          /\ UNCHANGED obj
       \/ \E row \in get_specialty(specialties, req[p].specialty_id) :
             /\ obj' = [obj EXCEPT ![p] = {row}]
             /\ Finish(p, Returned(HTTP_200_OK, row))
    /\ UNCHANGED <<staff, specialties, departments, writer, clock, session, txn,
                   req, fresh, requests, returned, posts>>

-----------------------------------------------------------------------------
(* Staff search: the data-access operation search(filters) and its endpoint *)

\* An absent filter.
NoFilter == "NoFilter"

\* The search filters; no entity of the model has a location column, so
\* that filter is only ever absent.
SearchInputs ==
    [name : {NoFilter, "an", "zz"}, department : {NoFilter, "cardio"},
     role : {NoFilter, "chief"}, location : {NoFilter}]

\* Case-insensitive substring match, on the strings of the model.
ContainsCI(s, f) ==
    <<s, f>> \in {<<"Ana", "an">>, <<"Cardiology", "cardio">>,
                  <<"cardiology", "cardio">>, <<"Chief", "chief">>}

\* The columns of a joined table when the foreign key finds no row.
NoRow == [id |-> NoneId, name |-> NULL]

\* Variant: an inner join, which keeps a staff row only when both foreign
\* keys find a row.
JoinedMutant(s) ==
    {[staff |-> s, department |-> d, specialty |-> x] :
        d \in ById(departments, s.department_id),
        x \in ById(specialties, s.specialty_id)}

\* Staff row s joined with Department and Specialty on its foreign keys;
\* every staff row is kept.
Joined(s) ==
    {[staff |-> s, department |-> d, specialty |-> x] :
        d \in IF ById(departments, s.department_id) = {}
              THEN {NoRow} ELSE ById(departments, s.department_id),
        x \in IF ById(specialties, s.specialty_id) = {}
              THEN {NoRow} ELSE ById(specialties, s.specialty_id)}

\* The rows of the join as the store yields them, by staff id.
RECURSIVE RowsInOrder(_)
RowsInOrder(rows) ==
    IF rows = {} THEN <<>>
    ELSE LET first == CHOOSE j \in rows : \A o \in rows : j.staff.id <= o.staff.id
         IN <<first>> \o RowsInOrder(rows \ {first})

\* The conjunction of the supplied filters; the name filter looks at the
\* first and the last name.
Matches(j, f) ==
    /\ f.name = NoFilter
          \/ ContainsCI(j.staff.first_name, f.name)
          \/ ContainsCI(j.staff.last_name, f.name)
    /\ f.department = NoFilter \/ ContainsCI(j.department.name, f.department)
    /\ f.role = NoFilter \/ ContainsCI(j.staff.role_level, f.role)

\* search(filters): the staff rows of the join that match, in order.
search(f) ==
    LET rows == SelectSeq(RowsInOrder(UNION {Joined(s) : s \in staff}),
                          LAMBDA j : Matches(j, f))
    IN [i \in 1..Len(rows) |-> rows[i].staff]

search_staff_endpoint(p) ==
    \E f \in SearchInputs :
        Accept(p, [op |-> "search_staff", filters |-> f], "ss_query", FALSE)

\* The endpoint: an empty result is reported as not-found at the boundary.
search_staff(p) ==
    /\ pc[p] = "ss_query"
    /\ LET found == search(req[p].filters) IN
       IF found = <<>>
       THEN Finish(p, HTTPException(HTTP_404_NOT_FOUND, "no matches"))
       ELSE Finish(p, Response(HTTP_200_OK, "", "", found))
    /\ UNCHANGED <<staff, specialties, departments, writer, clock, session, txn,
                   req, obj, fresh, requests, returned, posts>>

-----------------------------------------------------------------------------
(* request-vacation: GET /api/post, POST /api/post, GET /api/post/{post_id} *)

\* This application has no database: its handlers work on the list `posts`
\* and run, like every sync handler, on the workers of the thread pool.
VacationAccept(p, r, first) ==
    /\ pc[p] = "idle"
    /\ requests < MaxRequests
    /\ requests' = requests + 1
    /\ req' = [req EXCEPT ![p] = r]
    /\ pc' = [pc EXCEPT ![p] = first]
    /\ UNCHANGED <<staff, specialties, departments, writer, clock, session, txn,
                   obj, result, fresh, returned, posts>>

\* The handler ends with response r, which the worker has yet to send.
VacationFinish(p, r) ==
    /\ result' = [result EXCEPT ![p] = {r}]
    /\ pc' = [pc EXCEPT ![p] = "respond"]

\* The response is sent and the worker goes back to the pool.
respond(p) ==
    /\ pc[p] = "respond"
    /\ pc' = [pc EXCEPT ![p] = "idle"]
    /\ req' = [req EXCEPT ![p] = NoRequest]
    /\ obj' = [obj EXCEPT ![p] = {}]
    /\ result' = [result EXCEPT ![p] = {}]
    /\ UNCHANGED <<staff, specialties, departments, writer, clock, session, txn,
                   fresh, requests, returned, posts>>

get_posts_endpoint(p) ==
    VacationAccept(p, [op |-> "get_posts"], "gl_return")

\* get_posts(): return posts
get_posts(p) ==
    /\ pc[p] = "gl_return"
    /\ VacationFinish(p, Response(HTTP_200_OK, "", "", posts))
    /\ UNCHANGED <<staff, specialties, departments, writer, clock, session, txn,
                   req, obj, fresh, requests, returned, posts>>

create_post_endpoint(p) ==
    \E d \in PostCreateInputs :
        VacationAccept(p, [op |-> "create_post", data |-> d], "cp_new_id")

\* max(p["id"] for p in posts) + 1 if posts else 1
new_id(list) ==
    IF list = <<>> THEN 1
    ELSE (CHOOSE m \in {list[i].id : i \in DOMAIN list} :
             \A i \in DOMAIN list : list[i].id <= m) + 1

\* create_post up to new_post: the id is computed from the list as it is
\* now, and the dictionary is built.
create_post_new_post(p) ==
    /\ pc[p] = "cp_new_id"
    /\ obj' = [obj EXCEPT ![p] =
                 {[id |-> new_id(posts), author |-> req[p].data.author,
                   type |-> req[p].data.type,
                   description |-> req[p].data.description,
                   status |-> "accepted",
                   startDate |-> req[p].data.startDate,
                   endDay |-> req[p].data.endDay]}]
    /\ Goto(p, "cp_append")
    /\ UNCHANGED <<staff, specialties, departments, writer, clock, session, txn,
                   req, result, fresh, requests, returned, posts>>

\* posts.append(new_post); return new_post
create_post_append(p) ==
    /\ pc[p] = "cp_append"
    /\ \E new_post \in obj[p] :
          /\ posts' = Append(posts, new_post)
          /\ VacationFinish(p, Returned(HTTP_201_CREATED, new_post))
    /\ UNCHANGED <<staff, specialties, departments, writer, clock, session, txn,
                   req, obj, fresh, requests, returned>>

get_post_endpoint(p) ==
    \E id \in PostIdInputs :
        VacationAccept(p, [op |-> "get_post", post_id |-> id], "gp_loop")

\* get_posts(post_id): the raise is inside the for loop, after the if, so
\* the first iteration either returns the first post or raises 404; with no
\* post the loop body never runs and the function returns None.
get_posts_by_id(p) ==
    /\ pc[p] = "gp_loop"
    /\ IF posts = <<>>
       THEN VacationFinish(p, Response(HTTP_200_OK, "", "", {}))
       ELSE IF Head(posts).id = req[p].post_id
            THEN VacationFinish(p, Returned(HTTP_200_OK, Head(posts)))
            ELSE VacationFinish(p, HTTPException(HTTP_404_NOT_FOUND, "Post not found"))
    /\ UNCHANGED <<staff, specialties, departments, writer, clock, session, txn,
                   req, obj, fresh, requests, returned, posts>>

-----------------------------------------------------------------------------
(* The system *)

Next ==
    \E p \in Procs :
        \/ create_staff_endpoint(p)
        \/ create_staff_query(p)
        \/ create_staff_flush(p)
        \/ create_staff_commit(p)
        \/ create_staff_refresh(p)
        \/ get_staff_endpoint(p)
        \/ get_staff(p)
        \/ assign_position(p)
        \/ assign_staff_position_staff(p)
        \/ assign_staff_position_department(p)
        \/ assign_staff_position_specialty(p)
        \/ assign_staff_position_flush(p)
        \/ assign_staff_position_commit(p)
        \/ assign_staff_position_refresh(p)
        \/ create_specialty_endpoint(p)
        \/ create_specialty_query(p)
        \/ create_specialty_flush(p)
        \/ create_specialty_commit(p)
        \/ create_specialty_refresh(p)
        \/ get_db_close(p)

Spec == Init /\ [][Next]_vars

\* The specialties router on its own: the four endpoints app/main.py mounts.
NextSpecialties ==
    \E p \in Procs :
        \/ create_specialty_endpoint(p)
        \/ create_specialty_query(p)
        \/ create_specialty_flush(p)
        \/ create_specialty_commit(p)
        \/ create_specialty_refresh(p)
        \/ get_specialties_endpoint(p)
        \/ get_specialties_call(p)
        \/ get_specialty_endpoint(p)
        \/ get_specialty_query(p)
        \/ get_db_close(p)

SpecialtiesSpec == Init /\ [][NextSpecialties]_vars

\* The store once a specialty and a staff member have been created, as the
\* staff tests set it up before they call the service.
SeededSpecialties ==
    {SpecialtyRow([name |-> "Cardiology", description |-> NULL], 1, 1)}

SeededStaff ==
    {StaffRow([first_name |-> "Ana", last_name |-> "Lopez",
               email |-> "ana.lopez@test.com", phone_number |-> "12345678",
               start_date |-> "2024-01-01", status |-> "Active",
               role_level |-> "Senior", department_id |-> 1,
               specialty_id |-> 1], 1, 2)}

InitAssign ==
    /\ staff = SeededStaff
    /\ specialties = SeededSpecialties
    /\ departments = SeededDepartments
    /\ writer = NoWriter
    /\ clock = 3
    /\ session = [p \in Procs |-> FALSE]
    /\ txn = [p \in Procs |-> {}]
    /\ req = [p \in Procs |-> NoRequest]
    /\ pc = [p \in Procs |-> "idle"]
    /\ obj = [p \in Procs |-> {}]
    /\ result = [p \in Procs |-> {}]
    /\ fresh = [p \in Procs |-> FALSE]
    /\ requests = 0
    /\ returned = SeededSpecialties
    /\ posts = InitialPosts

\* The staff router on a store that holds a staff member.
NextAssign ==
    \E p \in Procs :
        \/ assign_position(p)
        \/ assign_staff_position_staff(p)
        \/ assign_staff_position_department(p)
        \/ assign_staff_position_specialty(p)
        \/ assign_staff_position_flush(p)
        \/ assign_staff_position_commit(p)
        \/ assign_staff_position_refresh(p)
        \/ get_db_close(p)

AssignSpec == InitAssign /\ [][NextAssign]_vars

\* The request-vacation application.
NextVacation ==
    \E p \in Procs :
        \/ get_posts_endpoint(p)
        \/ get_posts(p)
        \/ create_post_endpoint(p)
        \/ create_post_new_post(p)
        \/ create_post_append(p)
        \/ get_post_endpoint(p)
        \/ get_posts_by_id(p)
        \/ respond(p)

VacationSpec == Init /\ [][NextVacation]_vars

\* The staff contact service with the staff search.
NextStaffSearch ==
    \E p \in Procs :
        \/ create_staff_endpoint(p)
        \/ create_staff_query(p)
        \/ create_staff_flush(p)
        \/ create_staff_commit(p)
        \/ create_staff_refresh(p)
        \/ get_staff_endpoint(p)
        \/ get_staff(p)
        \/ search_staff_endpoint(p)
        \/ search_staff(p)
        \/ get_db_close(p)

StaffSearchSpec == Init /\ [][NextStaffSearch]_vars

-----------------------------------------------------------------------------
(* Properties *)

\* Worker p takes the step.
Steps(p) == pc'[p] # pc[p]

Serving(p, op) == req[p].op = op

Finished(p, op) == req[p].op = op /\ pc[p] = "finally"

EmailStored(email) == \E r \in staff : r.email = email

DuplicateEmail == HTTPException(HTTP_400_BAD_REQUEST, "Email already registered")

\* C1: a create_staff call whose email is already stored ends in the
\* duplicate-email rejection (HTTPException 400, "Email already registered"),
\* and neither the call nor the end of its request changes the staff table.
C1_DuplicateEmailRejected ==
    [][\A p \in Procs :
         /\ (pc[p] = "cs_query" /\ Steps(p) /\ EmailStored(req[p].data.email))
               => /\ pc'[p] = "finally"
                  /\ result'[p] = {DuplicateEmail}
                  /\ staff' = staff
         /\ (Finished(p, "create_staff") /\ result[p] = {DuplicateEmail} /\ Steps(p))
               => staff' = staff]_vars

C1_Witness ==
    \E p \in Procs :
        /\ Finished(p, "create_staff")
        /\ result[p] = {DuplicateEmail}
        /\ EmailStored(req[p].data.email)

\* C2: when two create_staff requests for one email, both accepted while the
\* email was not stored, have both ended, exactly one answered 201, the other
\* was rejected by the pre-check or by the unique constraint, and the store
\* holds exactly one row with that email.
C2_ExactlyOneConcurrentCreate ==
    \A p, q \in Procs :
        (/\ p # q
         /\ Finished(p, "create_staff") /\ Finished(q, "create_staff")
         /\ req[p].data.email = req[q].data.email
         /\ fresh[p] /\ fresh[q])
        => /\ Cardinality({w \in {p, q} :
                             \E r \in result[w] : r.status = HTTP_201_CREATED}) = 1
           /\ \A w \in {p, q} :
                 \E r \in result[w] :
                    \/ r.status = HTTP_201_CREATED
                    \/ r = DuplicateEmail
                    \/ r = IntegrityError
           /\ Cardinality({r \in staff : r.email = req[p].data.email}) = 1

C2_Witness ==
    \E p, q \in Procs :
        /\ p # q
        /\ Finished(p, "create_staff") /\ Finished(q, "create_staff")
        /\ req[p].data.email = req[q].data.email
        /\ fresh[p] /\ fresh[q]
        /\ result[p] = {IntegrityError}
        /\ \E r \in result[q] : r.status = HTTP_201_CREATED

\* C3: no two stored staff rows have the same email.
C3_StaffEmailUnique ==
    \A r1, r2 \in staff : r1.email = r2.email => r1 = r2

C3_Witness ==
    /\ Cardinality(staff) = 2
    /\ \E p \in Procs :
          Finished(p, "create_staff") /\ result[p] = {IntegrityError}

\* C4: every stored staff row references a stored department and a stored
\* specialty.
C4_StaffReferencesExist ==
    \A r \in staff :
        /\ r.department_id \in Ids(departments)
        /\ r.specialty_id \in Ids(specialties)

StaffNotFound == HTTPException(HTTP_404_NOT_FOUND, "staff")

\* C5: assign_staff_position for a staff_id no stored row has returns None,
\* which the router answers 404, and neither the call nor the end of its
\* request changes any staff row.
C5_AssignUnknownStaff ==
    [][\A p \in Procs :
         /\ (/\ pc[p] = "as_staff" /\ Steps(p)
             /\ \A r \in staff : r.id # req[p].staff_id)
               => /\ pc'[p] = "finally"
                  /\ obj'[p] = {}
                  /\ result'[p] = {StaffNotFound}
                  /\ staff' = staff
         /\ (/\ Finished(p, "assign_staff_position") /\ Steps(p)
             /\ result[p] = {StaffNotFound})
               => staff' = staff]_vars

C5_Witness ==
    \E p \in Procs :
        /\ Finished(p, "assign_staff_position")
        /\ result[p] = {StaffNotFound}
        /\ staff # {}
        /\ \A r \in staff : r.id # req[p].staff_id

\* C6: assign_staff_position for a stored staff row and a department_id no
\* stored department has raises ValueError, answered 400, and no step of the
\* call, nor the end of its request, changes the staff table.
C6_AssignUnknownDepartment ==
    [][\A p \in Procs :
         /\ (pc[p] \in {"as_staff", "as_dept"} /\ Steps(p)) => staff' = staff
         /\ (/\ pc[p] = "as_dept" /\ Steps(p)
             /\ \A d \in departments : d.id # req[p].data.department_id)
               => /\ pc'[p] = "finally"
                  /\ result'[p] = {ValueError("department")}
                  /\ \A r \in result'[p] : r.status = HTTP_400_BAD_REQUEST
                  /\ obj'[p] = obj[p]
                  /\ txn'[p] = {}
         /\ (/\ Finished(p, "assign_staff_position") /\ Steps(p)
             /\ result[p] = {ValueError("department")})
               => staff' = staff]_vars

C6_Witness ==
    \E p \in Procs :
        /\ Finished(p, "assign_staff_position")
        /\ result[p] = {ValueError("department")}
        /\ obj[p] # {} /\ obj[p] \subseteq staff

\* C7: assign_staff_position for a stored staff row, a stored department and
\* a given specialty_id no stored specialty has raises ValueError, and no step
\* of the call changes the staff table or the loaded object: role_level and
\* department_id are not assigned.
C7_AssignUnknownSpecialty ==
    [][\A p \in Procs :
         /\ (pc[p] \in {"as_staff", "as_dept", "as_spec"} /\ Steps(p)) => staff' = staff
         /\ (/\ pc[p] = "as_spec" /\ Steps(p)
             /\ \A x \in specialties : x.id # req[p].data.specialty_id)
               => /\ req[p].data.specialty_id # NoneId
                  /\ \E d \in departments : d.id = req[p].data.department_id
                  /\ pc'[p] = "finally"
                  /\ result'[p] = {ValueError("specialty")}
                  /\ obj'[p] = obj[p]
                  /\ txn'[p] = {}
         /\ (/\ Finished(p, "assign_staff_position") /\ Steps(p)
             /\ result[p] = {ValueError("specialty")})
               => staff' = staff]_vars

C7_Witness ==
    \E p \in Procs :
        /\ Finished(p, "assign_staff_position")
        /\ result[p] = {ValueError("specialty")}
        /\ obj[p] # {} /\ obj[p] \subseteq staff
        /\ \E o \in obj[p] : o.role_level # req[p].data.role_level

\* C8: the commit of a successful assign_staff_position leaves the target row
\* with the payload's role_level, department_id and specialty_id, its other
\* fields and every other row as they were, and the call returns the row as
\* the store then holds it.
C8_AssignSetsPayload ==
    [][\A p \in Procs :
         /\ (pc[p] = "as_commit" /\ Steps(p))
               => staff' = {IF r.id = req[p].staff_id
                            THEN [r EXCEPT !.role_level = req[p].data.role_level,
                                           !.department_id = req[p].data.department_id,
                                           !.specialty_id = req[p].data.specialty_id]
                            ELSE r : r \in staff}
         /\ (pc[p] = "as_refresh" /\ Steps(p))
               => /\ staff' = staff
                  /\ \E row \in staff :
                        /\ row.id = req[p].staff_id
                        /\ result'[p] = {Returned(HTTP_200_OK, row)}]_vars

\* The record echoes the payload.
Echoes(row, data) ==
    /\ row.first_name = data.first_name
    /\ row.last_name = data.last_name
    /\ row.email = data.email
    /\ row.phone_number = data.phone_number
    /\ row.start_date = data.start_date
    /\ row.status = data.status
    /\ row.role_level = data.role_level
    /\ row.department_id = data.department_id
    /\ row.specialty_id = data.specialty_id

Created(p) ==
    \E r \in result[p] :
        /\ r.status = HTTP_201_CREATED
        /\ \E row \in r.body :
              /\ row.id \in Nat \ {0}
              /\ row.created_at \in Nat \ {0}
              /\ Echoes(row, req[p].data)

\* C9 as stated: every create_staff call whose email was not stored when the
\* call looked for it (it did not end in the duplicate-email rejection) ends
\* with 201 and the record of the payload.
C9_FreshEmailCreated ==
    \A p \in Procs :
        (Finished(p, "create_staff") /\ result[p] # {DuplicateEmail}) => Created(p)

\* C9 amended: a create_staff call whose email is not stored passes the
\* pre-check; if the email is still not stored when the row is inserted, the
\* insert is accepted and the commit adds exactly one row, with a positive
\* id, a created_at and the payload's fields; and the call ends with 201 and
\* that record, unless the new row was changed between the commit and the
\* refresh.
C9_FreshAtInsertCreated ==
    [][\A p \in Procs :
         /\ (pc[p] = "cs_query" /\ Steps(p) /\ ~EmailStored(req[p].data.email))
               => pc'[p] = "cs_flush"
         /\ (pc[p] = "cs_flush" /\ Steps(p) /\ ~EmailStored(req[p].data.email))
               => pc'[p] = "cs_commit"
         /\ (pc[p] = "cs_commit" /\ Steps(p))
               => /\ pc'[p] = "cs_refresh"
                  /\ staff \subseteq staff'
                  /\ Cardinality(staff') = Cardinality(staff) + 1
                  /\ staff' \ staff = obj[p]
                  /\ \A row \in staff' \ staff :
                        /\ row.id \in Nat \ {0}
                        /\ row.created_at \in Nat \ {0}
                        /\ Echoes(row, req[p].data)
         /\ (pc[p] = "cs_refresh" /\ Steps(p) /\ obj[p] \subseteq staff)
               => /\ staff' = staff
                  /\ Finished(p, "create_staff")' /\ Created(p)'
                  /\ \A r \in result'[p] : r.body = obj[p]]_vars

C9_Witness ==
    \E p \in Procs :
        /\ Finished(p, "create_staff")
        /\ Created(p)
        /\ Cardinality(staff) = 2

SpecialtyExistsAlready == HTTPException(HTTP_409_CONFLICT, "already exists")

\* C10: a specialty create whose name is already stored is answered 409 by
\* the pre-check, before the request has inserted anything, and neither the
\* handler nor the end of the request changes the specialties table.
C10_DuplicateSpecialtyConflict ==
    [][\A p \in Procs :
         /\ (/\ pc[p] = "sp_query" /\ Steps(p)
             /\ \E r \in specialties : r.name = req[p].data.name)
               => /\ txn[p] = {} /\ obj[p] = {}
                  /\ pc'[p] = "finally"
                  /\ result'[p] = {SpecialtyExistsAlready}
                  /\ txn'[p] = {}
                  /\ specialties' = specialties
         /\ (/\ Finished(p, "create_specialty") /\ Steps(p)
             /\ result[p] = {SpecialtyExistsAlready})
               => specialties' = specialties]_vars

C10_Witness ==
    \E p \in Procs :
        /\ Finished(p, "create_specialty")
        /\ result[p] = {SpecialtyExistsAlready}
        /\ \E r \in specialties : r.name = req[p].data.name

\* C11: no two stored specialty rows have the same name.
C11_SpecialtyNameUnique ==
    \A r1, r2 \in specialties : r1.name = r2.name => r1 = r2

C11_Witness ==
    /\ specialties # {}
    /\ \E p \in Procs :
          Finished(p, "create_specialty") /\ result[p] = {IntegrityError}

\* C12: when two specialty creates of one name have both passed the
\* pre-check (neither was answered 409) and both have ended, one answered
\* 201, the INSERT of the other was rejected by the unique constraint, and
\* the store holds exactly one row with that name.
C12_OneRowPerConcurrentName ==
    \A p, q \in Procs :
        (/\ p # q
         /\ Finished(p, "create_specialty") /\ Finished(q, "create_specialty")
         /\ req[p].data.name = req[q].data.name
         /\ result[p] # {SpecialtyExistsAlready}
         /\ result[q] # {SpecialtyExistsAlready})
        => /\ \E w \in {p, q} :
                 /\ \E r \in result[w] : r.status = HTTP_201_CREATED
                 /\ \A v \in {p, q} \ {w} :
                       \E r \in result[v] :
                          /\ r.exc = "IntegrityError"
                          /\ r.status = HTTP_500_INTERNAL_SERVER_ERROR
           /\ Cardinality({r \in specialties : r.name = req[p].data.name}) = 1

C12_Witness ==
    \E p, q \in Procs :
        /\ p # q
        /\ Finished(p, "create_specialty") /\ Finished(q, "create_specialty")
        /\ req[p].data.name = req[q].data.name
        /\ \E r \in result[p] : r.exc = "IntegrityError"
        /\ \E r \in result[q] : r.status = HTTP_201_CREATED

\* The store holds the key of worker p's create.
KeyStored(p) ==
    \/ /\ req[p].op = "create_staff"
       /\ \E r \in staff : r.email = req[p].data.email
    \/ /\ req[p].op = "create_specialty"
       /\ \E r \in specialties : r.name = req[p].data.name

\* The response is an exception the handler let escape, answered 500.
Unexpected(r) ==
    /\ r.exc = "IntegrityError"
    /\ r.status = HTTP_500_INTERNAL_SERVER_ERROR
    /\ r.status \notin {HTTP_409_CONFLICT, HTTP_404_NOT_FOUND, HTTP_400_BAD_REQUEST}
    /\ r.body = {}

\* C13: an INSERT of create_staff or create_specialty whose key is stored
\* (the pre-check has passed, or was not made) ends the call with the
\* store's IntegrityError, answered 500 and never 409 or 404; the store and
\* the session's transaction are left as they were, and the request then
\* ends without another attempt.
C13_ConstraintFailurePropagates ==
    [][\A p \in Procs :
         /\ (pc[p] \in {"cs_flush", "sp_flush"} /\ Steps(p) /\ KeyStored(p))
               => /\ pc'[p] = "finally"
                  /\ \E r \in result'[p] : result'[p] = {r} /\ Unexpected(r)
                  /\ staff' = staff /\ specialties' = specialties
                  /\ txn'[p] = {} /\ obj'[p] = {}
         /\ (/\ pc[p] = "finally" /\ Steps(p)
             /\ \E r \in result[p] : r.exc = "IntegrityError")
               => /\ pc'[p] = "idle"
                  /\ staff' = staff /\ specialties' = specialties]_vars

C13_Witness ==
    \E p \in Procs :
        /\ pc[p] = "finally"
        /\ req[p].op \in {"create_staff", "create_specialty"}
        /\ KeyStored(p)
        /\ \E r \in result[p] : Unexpected(r)

\* C14: accepting a request opens the worker's session, which was closed and
\* holds nothing; every step of the handler runs on that open session; and
\* whatever the handler ended with (a return, an HTTPException, a
\* ValueError, an exception of the store), the next step of the request
\* closes the session.  A session is open exactly while its worker serves a
\* request.
C14_SessionPerRequest ==
    [][\A p \in Procs :
         /\ session[p] <=> pc[p] # "idle"
         /\ (pc[p] = "idle" /\ Steps(p))
               => /\ session'[p] /\ txn'[p] = {} /\ obj'[p] = {}
                  /\ \A q \in Procs \ {p} : session'[q] = session[q]
         /\ (pc[p] \notin {"idle", "finally"} /\ Steps(p))
               => session'[p] /\ pc'[p] # "idle"
         /\ (pc[p] = "finally" /\ Steps(p))
               => /\ result[p] # {}
                  /\ ~session'[p] /\ pc'[p] = "idle" /\ txn'[p] = {}
                  /\ writer' # p]_vars

C14_Witness ==
    \E p, q \in Procs :
        /\ pc[p] = "finally" /\ session[p]
        /\ \E r \in result[p] : r.exc = "IntegrityError"
        /\ pc[q] = "idle" /\ ~session[q]
        /\ requests >= 2

CommitLabels == {"cs_commit", "as_commit", "sp_commit"}

\* C15: the store changes only in the COMMIT of a session, and then to what
\* that session has written; the INSERT or UPDATE a session has sent is not
\* in the store before that; and the end of a request, which closes the
\* session, leaves the store as it was.
C15_OnlyCommitPersists ==
    [][\A p \in Procs :
         /\ (Steps(p) /\ pc[p] \notin CommitLabels)
               => staff' = staff /\ specialties' = specialties
                  /\ departments' = departments
         /\ (Steps(p) /\ pc[p] \in CommitLabels)
               => /\ departments' = departments
                  /\ IF txn[p] = {}
                     THEN staff' = staff /\ specialties' = specialties
                     ELSE \A t \in txn[p] :
                             staff' = t.staff /\ specialties' = t.specialties
         /\ (txn[p] # {}) => pc[p] \in CommitLabels]_vars

C15_Witness ==
    \E p \in Procs :
        /\ Finished(p, "create_specialty")
        /\ \E r \in result[p] : r.exc = "IntegrityError"
        /\ \E row \in specialties : row.name = req[p].data.name
        /\ \A row \in specialties : row.description # req[p].data.description

\* C16: a row keeps the created_at it was inserted with: no step changes
\* the created_at of a stored staff or specialty row, a new row has one, and
\* no step of assign_staff_position, whatever its outcome, changes the
\* created_at of any staff row.
C16_CreatedAtImmutable ==
    [][/\ \A r \in staff : \A r2 \in staff' :
             r2.id = r.id => r2.created_at = r.created_at
       /\ \A r \in specialties : \A r2 \in specialties' :
             r2.id = r.id => r2.created_at = r.created_at
       /\ \A r2 \in (staff' \ staff) \cup (specialties' \ specialties) :
             r2.created_at \in Nat \ {0}
       /\ \A p \in Procs :
             (req[p].op = "assign_staff_position" /\ Steps(p))
                => {<<r.id, r.created_at>> : r \in staff'}
                     = {<<r.id, r.created_at>> : r \in staff}]_vars

C16_Witness ==
    \E p \in Procs :
        /\ Finished(p, "assign_staff_position")
        /\ \E r \in result[p] : r.status = HTTP_200_OK
        /\ \E row \in staff :
              /\ row.id = req[p].staff_id
              /\ row.role_level = "Chief"
              /\ row.created_at \in Nat \ {0}

\* C17: a successful specialty create answers with a stored row that has a
\* positive id and the payload's name and description (null when omitted),
\* and every later get-by-id of an id a create has answered with returns
\* 200 and a record with the name and description of that answer, however
\* many creates have come in between.
C17_SpecialtyRoundTrip ==
    [][\A p \in Procs :
         /\ (pc[p] = "sp_refresh" /\ Steps(p))
               => \E r \in result'[p] :
                     /\ r.status = HTTP_201_CREATED
                     /\ \E b \in r.body :
                           /\ r.body = {b}
                           /\ b.id \in Nat \ {0}
                           /\ b.name = req[p].data.name
                           /\ b.description = req[p].data.description
                           /\ b \in returned'
         /\ (pc[p] = "gsp_query" /\ Steps(p))
               => \A row \in returned :
                     row.id = req[p].specialty_id
                     => \E r \in result'[p] :
                           /\ r.status = HTTP_200_OK
                           /\ \E b \in r.body :
                                 /\ r.body = {b}
                                 /\ b.id = row.id
                                 /\ b.name = row.name
                                 /\ b.description = row.description]_vars

C17_Witness ==
    \E p \in Procs :
        /\ Finished(p, "get_specialty")
        /\ \E r \in result[p] : r.status = HTTP_200_OK
        /\ \E row \in returned :
              /\ row.id = req[p].specialty_id
              /\ row.description = NULL
              /\ \E later \in returned : later.id > row.id
        /\ \A q \in Procs \ {p} : pc[q] = "idle"

\* C18: listing specialties with skip=0 and limit=100 while the table is
\* empty answers 200 with the empty sequence.
C18_EmptyListOk ==
    [][\A p \in Procs :
         (/\ pc[p] = "ls_call" /\ Steps(p)
          /\ specialties = {}
          /\ req[p].skip = 0 /\ req[p].limit = 100)
            => \E r \in result'[p] :
                  /\ r.status = HTTP_200_OK
                  /\ r.exc = ""
                  /\ r.body = <<>>]_vars

\* The rows of a table in ascending order of their primary key.
RECURSIVE ByPrimaryKey(_)
ByPrimaryKey(table) ==
    IF table = {} THEN <<>>
    ELSE LET first == CHOOSE r \in table : \A o \in table : r.id <= o.id
         IN <<first>> \o ByPrimaryKey(table \ {first})

\* OFFSET skip LIMIT limit of a sequence.
Page(rows, skip, limit) ==
    SubSeq(rows, skip + 1,
           IF skip + limit < Len(rows) THEN skip + limit ELSE Len(rows))

\* C19: listing specialties answers 200 with the stored rows in ascending
\* order of id, without the first skip rows and with at most limit rows;
\* the empty sequence when skip is at or beyond the number of rows.
C19_ListIsAPage ==
    [][\A p \in Procs :
         (pc[p] = "ls_call" /\ Steps(p))
            => \E r \in result'[p] :
                  /\ r.status = HTTP_200_OK
                  /\ r.exc = ""
                  /\ r.body = Page(ByPrimaryKey(specialties),
                                   req[p].skip, req[p].limit)]_vars

SpecialtyNotFound == HTTPException(HTTP_404_NOT_FOUND, "not found")

\* C20: get specialty by id answers 404 exactly when no stored specialty
\* has the id, and otherwise 200 with the stored row of that id; neither the
\* lookup nor the end of its request changes the store.
C20_GetSpecialtyById ==
    [][\A p \in Procs :
         /\ (pc[p] = "gsp_query" /\ Steps(p))
               => /\ pc'[p] = "finally"
                  /\ (\A row \in specialties : row.id # req[p].specialty_id)
                        => result'[p] = {SpecialtyNotFound}
                  /\ \A row \in specialties :
                        row.id = req[p].specialty_id
                        => result'[p] = {Returned(HTTP_200_OK, row)}
                  /\ (\E r \in result'[p] : r.status = HTTP_404_NOT_FOUND)
                        <=> (\A row \in specialties : row.id # req[p].specialty_id)
                  /\ txn'[p] = {}
                  /\ staff' = staff /\ specialties' = specialties
                  /\ departments' = departments /\ clock' = clock
         /\ (Finished(p, "get_specialty") /\ Steps(p))
               => /\ staff' = staff /\ specialties' = specialties
                  /\ departments' = departments /\ clock' = clock]_vars

C20_Witness ==
    \E p \in Procs :
        /\ Finished(p, "get_specialty")
        /\ result[p] = {SpecialtyNotFound}
        /\ specialties # {}
        /\ \A row \in specialties : row.id # req[p].specialty_id

GetStaffNotFound == HTTPException(HTTP_404_NOT_FOUND, "Staff not found")

\* C21: get_staff returns the stored staff row with the requested id when
\* there is one and raises 404 exactly when there is none; neither the call
\* nor the end of its request changes the store; and since no step changes
\* the id, first_name or email of a stored row, the row returned has the
\* ones it was created with.
C21_GetStaffById ==
    [][/\ \A r \in staff : \A r2 \in staff' :
             r2.id = r.id => r2.first_name = r.first_name /\ r2.email = r.email
       /\ \A p \in Procs :
             /\ (pc[p] = "gs_query" /\ Steps(p))
                   => /\ pc'[p] = "finally"
                      /\ (\A row \in staff : row.id # req[p].staff_id)
                            => result'[p] = {GetStaffNotFound}
                      /\ \A row \in staff :
                            row.id = req[p].staff_id
                            => result'[p] = {Returned(HTTP_200_OK, row)}
                      /\ (\E r \in result'[p] : r.status = HTTP_404_NOT_FOUND)
                            <=> (\A row \in staff : row.id # req[p].staff_id)
                      /\ txn'[p] = {}
                      /\ staff' = staff /\ specialties' = specialties
                      /\ departments' = departments
             /\ (Finished(p, "get_staff") /\ Steps(p))
                   => /\ staff' = staff /\ specialties' = specialties
                      /\ departments' = departments]_vars

C21_Witness ==
    \E p \in Procs :
        /\ Finished(p, "get_staff")
        /\ Cardinality(staff) = 2
        /\ \E r \in result[p] :
              /\ r.status = HTTP_200_OK
              /\ \E b \in r.body : b.id = 2 /\ b.id = req[p].staff_id /\ b \in staff

NoFilters ==
    [name |-> NoFilter, department |-> NoFilter, role |-> NoFilter,
     location |-> NoFilter]

Triple(r) == <<r.role_level, r.department_id, r.specialty_id>>

\* C23: when two assign_staff_position requests for one staff_id with
\* different payloads have both succeeded, the stored row has the complete
\* triple of one of the two payloads.
C23_NoMixedAssignment ==
    \A p, q \in Procs :
        (/\ p # q
         /\ Finished(p, "assign_staff_position")
         /\ Finished(q, "assign_staff_position")
         /\ req[p].staff_id = req[q].staff_id
         /\ req[p].data # req[q].data
         /\ \E r \in result[p] : r.status = HTTP_200_OK
         /\ \E r \in result[q] : r.status = HTTP_200_OK)
        => \A row \in staff :
              row.id = req[p].staff_id
              => Triple(row) \in {Triple(req[p].data), Triple(req[q].data)}

\* C24: assign_staff_position looks for the staff row first, then the
\* department, then the specialty, and ends at the first check that fails:
\* an unknown staff_id gives 404 whatever the department_id is, and for a
\* stored staff row an unknown department_id gives the ValueError that names
\* the department whatever the specialty_id is.
C24_ChecksInOrder ==
    [][\A p \in Procs :
         /\ (pc[p] = "idle" /\ Steps(p) /\ req'[p].op = "assign_staff_position")
               => pc'[p] = "as_staff"
         /\ (/\ pc[p] = "as_staff" /\ Steps(p)
             /\ \A r \in staff : r.id # req[p].staff_id)
               => pc'[p] = "finally" /\ result'[p] = {StaffNotFound}
         /\ (/\ pc[p] = "as_staff" /\ Steps(p)
             /\ \E r \in staff : r.id = req[p].staff_id)
               => pc'[p] = "as_dept" /\ result'[p] = {}
         /\ (/\ pc[p] = "as_dept" /\ Steps(p)
             /\ \A d \in departments : d.id # req[p].data.department_id)
               => pc'[p] = "finally" /\ result'[p] = {ValueError("department")}
         /\ (/\ pc[p] = "as_dept" /\ Steps(p)
             /\ \E d \in departments : d.id = req[p].data.department_id)
               => pc'[p] \in {"as_spec", "as_flush"} /\ result'[p] = {}
         /\ (pc[p] = "as_spec" /\ Steps(p))
               => \/ pc'[p] = "as_flush" /\ result'[p] = {}
                  \/ pc'[p] = "finally" /\ result'[p] = {ValueError("specialty")}]_vars

C24_Witness ==
    \E p, q \in Procs :
        /\ Finished(p, "assign_staff_position")
        /\ result[p] = {StaffNotFound}
        /\ req[p].data.department_id \notin Ids(departments)
        /\ Finished(q, "assign_staff_position")
        /\ result[q] = {ValueError("department")}
        /\ req[q].data.specialty_id # NoneId
        /\ req[q].data.specialty_id \notin Ids(specialties)

\* C27: assign_staff_position with specialty_id omitted goes from the
\* department check to the update without looking for a specialty, and its
\* commit leaves the staff row with a null specialty_id and with the
\* payload's role_level and department_id.
C27_OmittedSpecialtyClears ==
    [][\A p \in Procs :
         /\ (/\ pc[p] = "as_dept" /\ Steps(p)
             /\ req[p].data.specialty_id = NoneId
             /\ \E d \in departments : d.id = req[p].data.department_id)
               => pc'[p] = "as_flush"
         /\ (/\ pc[p] = "as_commit" /\ Steps(p)
             /\ req[p].data.specialty_id = NoneId)
               => \A row \in staff' :
                     row.id = req[p].staff_id
                     => /\ row.specialty_id = NoneId
                        /\ row.role_level = req[p].data.role_level
                        /\ row.department_id = req[p].data.department_id]_vars

\* Two names are the same letters, whatever their case.
SameNameIgnoringCase(a, b) == a = b \/ {a, b} = {"Cardiology", "cardiology"}

\* C25: a specialty create whose name equals a stored name up to letter
\* case is answered 409 by the pre-check, and neither the handler nor the
\* end of the request changes the specialties table.
C25_CaseInsensitiveDuplicate ==
    [][\A p \in Procs :
         /\ (/\ pc[p] = "sp_query" /\ Steps(p)
             /\ \E r \in specialties : SameNameIgnoringCase(r.name, req[p].data.name))
               => /\ pc'[p] = "finally"
                  /\ \E r \in result'[p] :
                        /\ result'[p] = {r}
                        /\ r.status = HTTP_409_CONFLICT
                        /\ r.exc = "HTTPException"
                  /\ txn'[p] = {}
                  /\ specialties' = specialties
         /\ (/\ Finished(p, "create_specialty") /\ Steps(p)
             /\ \E r \in result[p] : r.status = HTTP_409_CONFLICT)
               => specialties' = specialties]_vars

C25_Witness ==
    \E p \in Procs :
        /\ Finished(p, "create_specialty")
        /\ \E r \in result[p] : r.status = HTTP_409_CONFLICT
        /\ specialties # {}
        /\ \A r \in specialties :
              r.name # req[p].data.name /\ SameNameIgnoringCase(r.name, req[p].data.name)

\* C26: no two stored specialty rows have names that are equal up to
\* letter case.
C26_NoCaseVariants ==
    \A r1, r2 \in specialties :
        SameNameIgnoringCase(r1.name, r2.name) => r1 = r2

PostNotFound == HTTPException(HTTP_404_NOT_FOUND, "Post not found")

\* C28: GET /api/post/{post_id} returns the post with that id whenever the
\* list holds one, wherever it stands in the list, and answers 404 'Post not
\* found' exactly when the list holds none.
C28_GetPostById ==
    [][\A p \in Procs :
         (pc[p] = "gp_loop" /\ Steps(p))
            => /\ \A i \in DOMAIN posts :
                     posts[i].id = req[p].post_id
                     => \E r \in result'[p] :
                           /\ r.status = HTTP_200_OK
                           /\ \E b \in r.body : b.id = req[p].post_id
               /\ (\A i \in DOMAIN posts : posts[i].id # req[p].post_id)
                     => result'[p] = {PostNotFound}]_vars

\* C29: the ids in posts are pairwise distinct, and create_post appends one
\* post, with id 1 plus the largest id in the list (1 for an empty list) and
\* status 'accepted', leaving the posts already there as they were.
C29_PostIdsDistinct ==
    [][/\ \A i, j \in DOMAIN posts' :
             i # j => posts'[i].id # posts'[j].id
       /\ \A p \in Procs :
             (pc[p] = "cp_append" /\ Steps(p))
                => /\ Len(posts') = Len(posts) + 1
                   /\ SubSeq(posts', 1, Len(posts)) = posts
                   /\ posts'[Len(posts')].status = "accepted"
                   /\ \A i \in DOMAIN posts :
                         posts[i].id < posts'[Len(posts')].id
                   /\ \/ posts'[Len(posts')].id = 1
                      \/ \E i \in DOMAIN posts :
                            posts'[Len(posts')].id = posts[i].id + 1]_vars

====
